---------------------------- MODULE Spec2Model ----------------------------
(***************************************************************************)
(* A model of the mediation kernel of code-mode:                           *)
(*   - SecurityKernel / ConstraintEngine / CapabilityToken                 *)
(*       (src/track 3/track_3_implementation.py)                           *)
(*   - SchemaTranslator, StaticAnalyzer, RuntimeGuard and                  *)
(*     VerificationPipeline (src/track 2/track_2_implementation.py)        *)
(*                                                                         *)
(* Representation of Python values.                                        *)
(*   A Python str is a sequence of atoms.  Tool names, token patterns,     *)
(*   regular expressions and pattern-checked argument values are spelled   *)
(*   one character per atom, because the regex engine works on single      *)
(*   characters.  Constraint expressions, dictionary keys, type tags and   *)
(*   messages are spelled one lexical piece per atom ("department", "=",   *)
(*   "Sales"): the characters the code looks for ("=", quotes, blanks)     *)
(*   and the words it tests as prefixes or substrings ("exclude",          *)
(*   "maxRecords", "int", "str", ...) are always atoms of their own.       *)
(*   A dynamically typed value is [t |-> <type name>, v |-> <str(value)>]. *)
(*   Python's None and Optional results are the empty set / a singleton.   *)
(*   A dict is a function from atomic keys to values.                      *)
(***************************************************************************)
EXTENDS Naturals, Sequences, FiniteSets, TLC

VARIABLES
    tool,         \* enforce / learn_policy argument tool_name of the call under study
    call_args,    \* its argument map
    tokens,       \* the principal's token list (user_tokens)
    context,      \* the caller context (user_context)
    pc,           \* the caller: "ready" (nothing called yet), "done" (the call under study
                  \* was just made, once), "repeated" (just made, not for the first time),
                  \* "between" (another call was made since)
    decision,     \* Optional: what the kernel's last enforce call returned or raised
    first,        \* Optional: what the first enforce call on (tool, call_args, tokens, context) gave
    suggestion,   \* Optional: what the last learn_policy call returned or raised
    policy_log,   \* SecurityKernel.policy_log
    tool_schema,  \* validate_args: the tool definition
    vargs,        \* validate_args: the argument map, in insertion order
    validation,   \* Optional: what validate_args returned or raised
    tools_map,    \* VerificationPipeline.tools_map, the registry the analyzer and the guard share
    builtins,     \* the names dir(__builtins__) lists in the module of the analyzer
    errors,       \* StaticAnalyzer.errors
    block,        \* Optional: the block of the last verify_code call
    report,       \* Optional: the list the last verify_code call returned
    outcome,      \* Optional: what the last execute_with_guard call returned or raised
    threads,      \* the concurrent invocations: for each thread its operation, position and result
    expr,         \* evaluate: the constraint expression under study
    verdict,      \* Optional: what evaluate returned or raised
    replayed      \* Optional: the call enforce was given with the suggested token alone

kernelVars == <<tool, call_args, tokens, context, pc, decision, first, suggestion,
                policy_log, tool_schema, vargs, validation>>
pipeVars == <<tools_map, builtins, errors, block, report, outcome, threads>>
evalVars == <<expr, verdict>>
learnVars == <<replayed>>
vars == <<kernelVars, pipeVars, evalVars, learnVars>>

\* no pipeline is under study
IdlePipeline ==
    /\ tools_map = <<>>
    /\ builtins = {}
    /\ errors = <<>>
    /\ block = {}
    /\ report = {}
    /\ outcome = {}
    /\ threads = <<>>

\* no constraint is under study
IdleEvaluate ==
    /\ expr = <<>>
    /\ verdict = {}

\* no suggestion is being tried
IdleLearn == replayed = {}

None == {}
Some(x) == {x}
The(opt) == CHOOSE x \in opt : TRUE

(***************************************************************************)
(* Python str helpers                                                      *)
(***************************************************************************)
Contains(s, a) == \E i \in 1..Len(s) : s[i] = a

\* s.startswith(a) for a word a that is an atom of its own
StartsWithAtom(s, a) == Len(s) >= 1 /\ s[1] = a

\* index of the first occurrence of atom a (s must contain it)
IndexOf(s, a) == CHOOSE i \in 1..Len(s) : s[i] = a /\ \A j \in 1..(i - 1) : s[j] # a

RECURSIVE LStrip(_, _)
LStrip(s, cs) == IF s # <<>> /\ Head(s) \in cs THEN LStrip(Tail(s), cs) ELSE s

RECURSIVE RStrip(_, _)
RStrip(s, cs) ==
    IF s # <<>> /\ s[Len(s)] \in cs THEN RStrip(SubSeq(s, 1, Len(s) - 1), cs) ELSE s

\* str.strip(chars)
Strip(s, cs) == RStrip(LStrip(s, cs), cs)

Whitespace == {" ", "\t", "\n"}

\* str(value)
str(value) == value.v

\* a == b on two Python values of the model (no two values of different
\* types in the model's sets are equal in Python)
PyEq(a, b) == a = b

StrVal(s) == [t |-> "str", v |-> s]
\* None, as a value
PyNone == [t |-> "NoneType", v |-> <<"None">>]

\* key in d, for a key computed as a str
HasKey(d, key) == \E k \in DOMAIN d : <<k>> = key
Lookup(d, key) == d[CHOOSE k \in DOMAIN d : <<k>> = key]

(***************************************************************************)
(* The regular expressions the model's patterns use: a literal character,  *)
(* "." (any character), either of them followed by "*", and an opening     *)
(* "[" that nothing closes, which re refuses to compile.                   *)
(***************************************************************************)
\* re.compile raises re.error("unterminated character set")
re_error(regex) ==
    \E i \in 1..Len(regex) :
        regex[i] = "[" /\ ~ \E j \in (i + 1)..Len(regex) : regex[j] = "]"

\* "." matches any character except a newline (no DOTALL flag)
ReAtomMatches(r, c) == (r = "." /\ c # "\n") \/ (r # "." /\ r = c)

RECURSIVE ReMatchAt(_, _, _, _, _)
\* whether regex from position i matches string from position j; to the
\* string's end when full
ReMatchAt(regex, i, string, j, full) ==
    IF i > Len(regex) THEN (~full \/ j > Len(string))
    ELSE IF i < Len(regex) /\ regex[i + 1] = "*"
         THEN \/ ReMatchAt(regex, i + 2, string, j, full)
              \/ /\ j <= Len(string)
                 /\ ReAtomMatches(regex[i], string[j])
                 /\ ReMatchAt(regex, i, string, j + 1, full)
         ELSE /\ j <= Len(string)
              /\ ReAtomMatches(regex[i], string[j])
              /\ ReMatchAt(regex, i + 1, string, j + 1, full)

re_fullmatch(regex, string) == ReMatchAt(regex, 1, string, 1, TRUE)
re_match(regex, string) == ReMatchAt(regex, 1, string, 1, FALSE)

RECURSIVE GlobToRegex(_)
\* token.tool_pattern.replace("*", ".*")
GlobToRegex(tool_pattern) ==
    IF tool_pattern = <<>> THEN <<>>
    ELSE (IF Head(tool_pattern) = "*" THEN <<".", "*">> ELSE <<Head(tool_pattern)>>)
         \o GlobToRegex(Tail(tool_pattern))

(***************************************************************************)
(* CapabilityToken                                                         *)
(***************************************************************************)
CapabilityToken(tool_pattern, operations, constraints, description) ==
    [tool_pattern |-> tool_pattern, operations |-> operations,
     constraints |-> constraints, description |-> description]

(***************************************************************************)
(* ConstraintEngine.evaluate: "True", "False", or the exception raised     *)
(***************************************************************************)
\* int(s): the integer literals the model spells, as an Optional
IntLiterals == {"5", "10", "50", "100"}
IntOf(s) ==
    LET core == Strip(s, Whitespace)
    IN  IF Len(core) = 1 /\ core[1] \in IntLiterals
        THEN Some(CASE core[1] = "5" -> 5 [] core[1] = "10" -> 10
                    [] core[1] = "50" -> 50 [] core[1] = "100" -> 100)
        ELSE None

\* constraint.split("=")[1]
SecondField(constraint) ==
    LET i == IndexOf(constraint, "=")
        rest == SubSeq(constraint, i + 1, Len(constraint))
    IN  IF Contains(rest, "=") THEN SubSeq(rest, 1, IndexOf(rest, "=") - 1) ELSE rest

\* an equality rule that fails when the arguments lack the key
Equality_required(constraint, args) ==
    LET i == IndexOf(constraint, "=")
        key == Strip(SubSeq(constraint, 1, i - 1), Whitespace)
        required_val ==
            Strip(Strip(Strip(SubSeq(constraint, i + 1, Len(constraint)), Whitespace),
                        {"'"}), {"\""})
    IN  IF ~HasKey(args, key) THEN "False"
        ELSE IF str(Lookup(args, key)) = required_val THEN "True" ELSE "False"

Equality(constraint, args) ==
    LET i == IndexOf(constraint, "=")
        key == Strip(SubSeq(constraint, 1, i - 1), Whitespace)
        required_val ==
            Strip(Strip(Strip(SubSeq(constraint, i + 1, Len(constraint)), Whitespace),
                        {"'"}), {"\""})
    IN  IF ~HasKey(args, key) THEN "True"
        ELSE IF str(Lookup(args, key)) = required_val THEN "True" ELSE "False"

Ownership(args, user_context) ==
    IF "owner" \in DOMAIN args
    THEN IF "user_id" \notin DOMAIN user_context THEN "KeyError"
         ELSE IF PyEq(args["owner"], user_context["user_id"]) THEN "True" ELSE "False"
    ELSE IF "user_id" \in DOMAIN args
    THEN IF "user_id" \notin DOMAIN user_context THEN "KeyError"
         ELSE IF PyEq(args["user_id"], user_context["user_id"]) THEN "True" ELSE "False"
    ELSE "True"

MaxLimit(constraint, args) ==
    LET limit == IntOf(SecondField(constraint))
    IN  IF limit = None THEN "True"                       \* except: pass
        ELSE IF "limit" \notin DOMAIN args THEN "True"
        ELSE LET given == IF args["limit"].t \in {"int", "str"}
                          THEN IntOf(str(args["limit"])) ELSE None
             IN  IF given = None THEN "True"              \* except: pass
                 ELSE IF The(given) > The(limit) THEN "False" ELSE "True"

evaluate(constraint, args, user_context) ==
    IF Contains(constraint, "=") /\ ~StartsWithAtom(constraint, "exclude")
    THEN Equality(constraint, args)
    ELSE IF constraint = <<"ownedByUser">>
    THEN Ownership(args, user_context)
    ELSE IF Len(constraint) >= 2 /\ constraint[1] = "maxRecords" /\ constraint[2] = "="
    THEN MaxLimit(constraint, args)
    ELSE "True"

(***************************************************************************)
(* SecurityKernel.enforce                                                  *)
(***************************************************************************)
Returned(allowed, reason, details) ==
    [kind |-> "return", allowed |-> allowed, reason |-> reason, details |-> details]
Raised(exc) == [kind |-> "raise", exc |-> exc]

RECURSIVE FirstUnmet(_, _, _)
\* the inner loop over token.constraints: the first constraint that is not
\* satisfied, or that raises
FirstUnmet(constraints, args, user_context) ==
    IF constraints = <<>> THEN [status |-> "met"]
    ELSE LET r == evaluate(Head(constraints), args, user_context)
         IN  IF r = "True" THEN FirstUnmet(Tail(constraints), args, user_context)
             ELSE IF r = "False"
             THEN [status |-> "violated", violation |-> Head(constraints)]
             ELSE [status |-> "raise", exc |-> r]

RECURSIVE CheckTokens_forgetful(_, _, _, _, _)
\* an outer loop that does not keep the constraint a token failed on
CheckTokens_forgetful(matching_tokens, tool_name, args, user_context, violation) ==
    IF matching_tokens = <<>>
    THEN Returned(FALSE, "ConstraintViolation",
                  Some(("tool" :> Some(tool_name)) @@ ("failed_constraint" :> violation)))
    ELSE LET r == FirstUnmet(Head(matching_tokens).constraints, args, user_context)
         IN  IF r.status = "raise" THEN Raised(r.exc)
             ELSE IF r.status = "met" THEN Returned(TRUE, "Allowed", None)
             ELSE CheckTokens_forgetful(Tail(matching_tokens), tool_name, args,
                                        user_context, violation)

RECURSIVE CheckTokens(_, _, _, _, _)
\* the outer loop over matching_tokens; violation is Optional
CheckTokens(matching_tokens, tool_name, args, user_context, violation) ==
    IF matching_tokens = <<>>
    THEN Returned(FALSE, "ConstraintViolation",
                  Some(("tool" :> Some(tool_name)) @@ ("failed_constraint" :> violation)))
    ELSE LET r == FirstUnmet(Head(matching_tokens).constraints, args, user_context)
         IN  IF r.status = "raise" THEN Raised(r.exc)
             ELSE IF r.status = "met" THEN Returned(TRUE, "Allowed", None)
             ELSE CheckTokens(Tail(matching_tokens), tool_name, args, user_context,
                              Some(r.violation))

TokenMatches(token, tool_name) ==
    re_fullmatch(GlobToRegex(token.tool_pattern), tool_name)

\* step 1 of enforce: the tokens whose pattern matches, in the list's order
MatchingTokens(tool_name, user_tokens) ==
    SelectSeq(user_tokens, LAMBDA t : TokenMatches(t, tool_name))

\* a kernel that adds the policy learn_policy last suggested to the caller's
\* tokens
enforce_learned(tool_name, args, user_tokens, user_context) ==
    LET learned == IF suggestion # None /\ The(suggestion).kind = "return"
                   THEN <<The(suggestion).token>>
                   ELSE <<>>
        held == user_tokens \o learned
    IN  IF \E i \in 1..Len(held) : re_error(GlobToRegex(held[i].tool_pattern))
        THEN Raised("re.error")
        ELSE IF MatchingTokens(tool_name, held) = <<>>
        THEN Returned(FALSE, "NoCapabilityToken", Some("tool" :> Some(tool_name)))
        ELSE CheckTokens(MatchingTokens(tool_name, held), tool_name, args,
                         user_context, None)

\* a kernel that passes over the matching tokens whose operations lack
\* "read"
enforce_operations(tool_name, args, user_tokens, user_context) ==
    LET permitted == SelectSeq(MatchingTokens(tool_name, user_tokens),
                               LAMBDA t : \E i \in 1..Len(t.operations) :
                                              t.operations[i] = "read")
    IN  IF \E i \in 1..Len(user_tokens) : re_error(GlobToRegex(user_tokens[i].tool_pattern))
        THEN Raised("re.error")
        ELSE IF permitted = <<>>
        THEN Returned(FALSE, "NoCapabilityToken", Some("tool" :> Some(tool_name)))
        ELSE CheckTokens(permitted, tool_name, args, user_context, None)

enforce(tool_name, args, user_tokens, user_context) ==
    IF \E i \in 1..Len(user_tokens) : re_error(GlobToRegex(user_tokens[i].tool_pattern))
    THEN Raised("re.error")
    ELSE IF MatchingTokens(tool_name, user_tokens) = <<>>
    THEN Returned(FALSE, "NoCapabilityToken", Some("tool" :> Some(tool_name)))
    ELSE CheckTokens(MatchingTokens(tool_name, user_tokens), tool_name, args,
                     user_context, None)

(***************************************************************************)
(* SecurityKernel.learn_policy                                             *)
(***************************************************************************)
learn_policy(tool_name, args, user_context) ==
    IF "user_id" \notin DOMAIN user_context THEN Raised("KeyError")
    ELSE LET dept == IF "department" \in DOMAIN args
                     THEN << <<"department", "=">> \o str(args["department"]) >>
                     ELSE <<>>
             \* args.get('owner')
             owner == IF "owner" \in DOMAIN args THEN args["owner"] ELSE PyNone
             own == IF PyEq(owner, user_context["user_id"])
                    THEN << <<"ownedByUser">> >>
                    ELSE <<>>
         IN  [kind |-> "return",
              token |-> CapabilityToken(tool_name, <<"read", "write">>, dept \o own,
                                        <<"Auto-generated policy for ">> \o tool_name)]

(***************************************************************************)
(* SchemaTranslator                                                        *)
(***************************************************************************)
\* d.get(key, default)
Get(d, key, default) == IF key \in DOMAIN d THEN d[key] ELSE default

\* str.lower(), atom by atom
LowerAtom(a) ==
    CASE a = "Str" -> "str" [] a = "Int" -> "int" [] a = "List" -> "list" [] OTHER -> a
Lower(s) == [i \in 1..Len(s) |-> LowerAtom(s[i])]

\* isinstance(value, cls): bool is a subclass of int
IsInstance(value, cls) ==
    CASE cls = "int" -> value.t \in {"int", "bool"}
      [] cls = "int_or_float" -> value.t \in {"int", "bool", "float"}
      [] OTHER -> value.t = cls

validate_type(value, expected_type) ==
    CASE expected_type = "string" -> IsInstance(value, "str")
      [] expected_type = "integer" -> IsInstance(value, "int")
      [] expected_type = "number" -> IsInstance(value, "int_or_float")
      [] expected_type = "boolean" -> IsInstance(value, "bool")
      [] expected_type = "array" -> IsInstance(value, "list")
      [] expected_type = "object" -> IsInstance(value, "dict")
      [] OTHER -> TRUE

\* the if/elif chain that maps a declared type to py_type
PyType(type_def) ==
    LET low == Lower(type_def)
    IN  IF Contains(low, "int") THEN "integer"
        ELSE IF Contains(low, "str") THEN "string"
        ELSE IF Contains(low, "bool") THEN "boolean"
        ELSE IF Contains(low, "list") THEN "array"
        ELSE IF Contains(low, "dict") THEN "object"
        ELSE "unknown"

ValidationResult(valid, error, fix_suggestion) ==
    [kind |-> "return", valid |-> valid, error |-> error, fix_suggestion |-> fix_suggestion]

MissingRequired(field) ==
    ValidationResult(FALSE, Some(<<"Missing required argument: '", field, "'">>),
                     Some(<<"Add '", field, "' to arguments">>))
TypeMismatch(key, py_type, value) ==
    ValidationResult(FALSE,
                     Some(<<"Type mismatch for '", key, "': expected ", py_type,
                            ", got ", value.t>>),
                     Some(<<"Cast '", key, "' to ", py_type>>))
PatternMismatch(key, pattern) ==
    ValidationResult(FALSE,
                     Some(<<"Value for '", key, "' does not match pattern ">> \o pattern),
                     Some(<<"Format '", key, "' correctly">>))

\* the keys of an argument map kept in insertion order
Keys(args) == {args[i].key : i \in 1..Len(args)}

\* step 1: the first required field that args lacks, as an Optional
FirstMissing(required, args) ==
    IF \E i \in 1..Len(required) : required[i] \notin Keys(args)
    THEN Some(required[CHOOSE i \in 1..Len(required) :
                  /\ required[i] \notin Keys(args)
                  /\ \A j \in 1..(i - 1) : required[j] \in Keys(args)])
    ELSE None

\* step 2 on one item: an Optional failure (or exception)
CheckField(key, value, props) ==
    IF key \notin DOMAIN props THEN None
    ELSE LET field_schema == props[key]
             py_type == IF "type" \in DOMAIN field_schema
                        THEN PyType(field_schema["type"]) ELSE "unknown"
         IN  IF py_type # "unknown" /\ ~validate_type(value, py_type)
             THEN Some(TypeMismatch(key, py_type, value))
             ELSE IF "pattern" \in DOMAIN field_schema /\ IsInstance(value, "str")
             THEN IF re_error(field_schema["pattern"]) THEN Some(Raised("re.error"))
                  ELSE IF ~re_match(field_schema["pattern"], value.v)
                  THEN Some(PatternMismatch(key, field_schema["pattern"]))
                  ELSE None
             ELSE None

RECURSIVE CheckFields(_, _, _)
\* step 2: the loop over args.items() from item i on
CheckFields(args, i, props) ==
    IF i > Len(args) THEN ValidationResult(TRUE, None, None)
    ELSE LET r == CheckField(args[i].key, args[i].value, props)
         IN  IF r # None THEN The(r) ELSE CheckFields(args, i + 1, props)

\* a validator that looks at the supplied fields before the required ones
validate_args_fields_first(tool_name, args, schema) ==
    LET parameters == Get(schema, "parameters", <<>>)
        props == Get(parameters, "properties", <<>>)
        required == Get(parameters, "required", <<>>)
        r == CheckFields(args, 1, props)
    IN  IF ~(r.kind = "return" /\ r.valid) THEN r
        ELSE IF FirstMissing(required, args) # None
        THEN MissingRequired(The(FirstMissing(required, args)))
        ELSE r

\* a validator that rejects arguments the tool does not declare
validate_args_closed(tool_name, args, schema) ==
    LET parameters == Get(schema, "parameters", <<>>)
        props == Get(parameters, "properties", <<>>)
        required == Get(parameters, "required", <<>>)
    IN  IF FirstMissing(required, args) # None
        THEN MissingRequired(The(FirstMissing(required, args)))
        ELSE IF \E i \in 1..Len(args) : args[i].key \notin DOMAIN props
        THEN ValidationResult(FALSE, Some(<<"Unknown argument">>), None)
        ELSE CheckFields(args, 1, props)

validate_args(tool_name, args, schema) ==
    LET parameters == Get(schema, "parameters", <<>>)
        props == Get(parameters, "properties", <<>>)
        required == Get(parameters, "required", <<>>)
    IN  IF FirstMissing(required, args) # None
        THEN MissingRequired(The(FirstMissing(required, args)))
        ELSE CheckFields(args, 1, props)

(***************************************************************************)
(* StaticAnalyzer.  A block of code is what ast.parse makes of it: either  *)
(* a SyntaxError, or the Call nodes of the tree in the order generic_visit *)
(* reaches them, each with the form of its func (a Name, an Attribute, or  *)
(* another expression) and the identifier it carries.                      *)
(***************************************************************************)
\* s.endswith(suffix)
EndsWith(s, suffix) ==
    /\ Len(suffix) <= Len(s)
    /\ SubSeq(s, Len(s) - Len(suffix) + 1, Len(s)) = suffix

Call(func, name) == [func |-> func, name |-> name]
Parsed(calls) == [syntax_error |-> FALSE, calls |-> calls]
Unparsable == [syntax_error |-> TRUE, calls |-> <<>>]

\* node.func.id of a Name, node.func.attr of an Attribute, else None
CalleeName(node) == IF node.func \in {"Name", "Attribute"} THEN Some(node.name) ELSE None

\* the loop over available_tools: some registered name ends with tool_name
Matched(available_tools, tool_name) ==
    \E t_name \in DOMAIN available_tools : EndsWith(t_name, tool_name) \/ t_name = tool_name

Hallucination(tool_name) == <<"Hallucination: Tool '">> \o tool_name \o <<"' does not exist.">>

\* visit_Call: self.errors after the node
visit_Call(self_errors, node, available_tools, builtin_names) ==
    IF /\ CalleeName(node) # None
       /\ ~Matched(available_tools, The(CalleeName(node)))
       /\ The(CalleeName(node)) \notin builtin_names
    THEN Append(self_errors, Hallucination(The(CalleeName(node))))
    ELSE self_errors

RECURSIVE VisitFrom(_, _, _, _, _)
\* self.visit(tree): self.errors after the Call nodes from the i-th on
VisitFrom(self_errors, calls, i, available_tools, builtin_names) ==
    IF i > Len(calls) THEN self_errors
    ELSE VisitFrom(visit_Call(self_errors, calls[i], available_tools, builtin_names),
                   calls, i + 1, available_tools, builtin_names)

SyntaxErrorReport == << <<"Syntax Error: ", "e">> >>

\* analyze: self.errors after the call, and the list returned
analyze(self_errors, code, available_tools, builtin_names) ==
    IF code.syntax_error
    THEN [errors |-> self_errors, result |-> SyntaxErrorReport]
    ELSE LET after == VisitFrom(self_errors, code.calls, 1, available_tools, builtin_names)
         IN  [errors |-> after, result |-> after]

(***************************************************************************)
(* RuntimeGuard and VerificationPipeline                                   *)
(***************************************************************************)
NotFound(tool_name) == <<"Hallucination: Tool '">> \o tool_name \o <<"' not found.">>
SchemaViolation(error) == <<"SchemaViolation: ">> \o error
Executed(tool_name) == <<"Executed ">> \o tool_name \o <<" successfully.">>

\* a guard that validates against an empty definition when the registry has none
execute_safe_unchecked(tools_db, tool_name, args) ==
    LET checked == validate_args(tool_name, args, Get(tools_db, tool_name, <<>>))
    IN  IF checked.kind = "raise" THEN checked
        ELSE IF ~checked.valid
        THEN [kind |-> "return", success |-> FALSE,
              result |-> SchemaViolation(The(checked.error))]
        ELSE [kind |-> "return", success |-> TRUE, result |-> Executed(tool_name)]

\* the tuple (success, result), or the exception validate_args raised
execute_safe(tools_db, tool_name, args) ==
    IF tool_name \notin DOMAIN tools_db
    THEN [kind |-> "return", success |-> FALSE, result |-> NotFound(tool_name)]
    ELSE LET checked == validate_args(tool_name, args, tools_db[tool_name])
         IN  IF checked.kind = "raise" THEN checked
             ELSE IF ~checked.valid
             THEN [kind |-> "return", success |-> FALSE,
                   result |-> SchemaViolation(The(checked.error))]
             ELSE [kind |-> "return", success |-> TRUE, result |-> Executed(tool_name)]

\* {"success": success, "message": result}
execute_with_guard(tools_db, tool_name, args) ==
    LET r == execute_safe(tools_db, tool_name, args)
    IN  IF r.kind = "raise" THEN r
        ELSE [kind |-> "return", success |-> r.success, message |-> r.result]

\* VerificationPipeline(tools_list).tools_map: {t['name']: t for t in tools_list}
VerificationPipeline(tools_list) ==
    [n \in {tools_list[i]["name"] : i \in 1..Len(tools_list)} |->
        tools_list[CHOOSE i \in 1..Len(tools_list) :
            /\ tools_list[i]["name"] = n
            /\ \A j \in (i + 1)..Len(tools_list) : tools_list[j]["name"] # n]]

(***************************************************************************)
(* The mock environment of track 3: tool names, users, tokens, scenarios   *)
(***************************************************************************)
\* "salesforce.update_lead"
salesforce_update_lead == <<"s","a","l","e","s","f","o","r","c","e",".","u","p","d","a","t","e","_","l","e","a","d">>
\* "salesforce.get_lead"
salesforce_get_lead == <<"s","a","l","e","s","f","o","r","c","e",".","g","e","t","_","l","e","a","d">>
\* "gdrive.read_file"
gdrive_read_file == <<"g","d","r","i","v","e",".","r","e","a","d","_","f","i","l","e">>
\* "gdrive.delete_file"
gdrive_delete_file == <<"g","d","r","i","v","e",".","d","e","l","e","t","e","_","f","i","l","e">>
\* "hr.get_salary"
hr_get_salary == <<"h","r",".","g","e","t","_","s","a","l","a","r","y">>
\* "gdrive_read_file": a name that is no tool of the catalog
gdrive_underscore_read_file == <<"g","d","r","i","v","e","_","r","e","a","d","_","f","i","l","e">>
\* "salesforce.*"
salesforce_star == <<"s","a","l","e","s","f","o","r","c","e",".","*">>
\* "gdrive.*"
gdrive_star == <<"g","d","r","i","v","e",".","*">>
\* "hr.[*": a pattern with a regex metacharacter
hr_bracket_star == <<"h","r",".","[","*">>

Ops == <<"read", "write">>

\* USERS[...]["tokens"]
AliceTokens ==
    << CapabilityToken(salesforce_star, Ops, << <<"department", "=", "Sales">> >>,
                       <<"Sales Team Access">>),
       CapabilityToken(gdrive_read_file, <<"read">>, << <<"ownedByUser">> >>,
                       <<"Personal Drive Read">>) >>
BobTokens ==
    << CapabilityToken(gdrive_star, Ops, <<>>, <<"Full Drive Access">>),
       CapabilityToken(salesforce_get_lead, <<"read">>,
                       << <<"department", "=", "Engineering">> >>, <<"Eng Lead View">>) >>

USERS ==
    [alice_sales |-> [user_id |-> StrVal(<<"alice_sales">>), tokens |-> AliceTokens],
     bob_eng |-> [user_id |-> StrVal(<<"bob_eng">>), tokens |-> BobTokens],
     mallory_intern |-> [user_id |-> StrVal(<<"mallory_intern">>), tokens |-> <<>>]]

SCENARIOS ==
    << [user |-> "alice_sales", expected_tool |-> salesforce_update_lead,
        expected_args |-> [lead_id |-> StrVal(<<"L-101">>), status |-> StrVal(<<"Qualified">>),
                           department |-> StrVal(<<"Sales">>)]],
       [user |-> "alice_sales", expected_tool |-> hr_get_salary,
        expected_args |-> [employee_id |-> StrVal(<<"E-999">>)]],
       [user |-> "alice_sales", expected_tool |-> salesforce_update_lead,
        expected_args |-> [lead_id |-> StrVal(<<"L-202">>), status |-> StrVal(<<"Qualified">>),
                           department |-> StrVal(<<"Engineering">>)]],
       [user |-> "bob_eng", expected_tool |-> gdrive_delete_file,
        expected_args |-> [file_id |-> StrVal(<<"doc-123">>),
                           owner |-> StrVal(<<"alice_sales">>)]] >>

(***************************************************************************)
(* The calls the kernel is studied on                                      *)
(***************************************************************************)
MaxTokens == 2

ToolNames ==
    {salesforce_update_lead, gdrive_read_file, gdrive_underscore_read_file, hr_get_salary}

\* the tokens of the mock users, a token with two constraints, and a token
\* whose pattern holds a regex metacharacter
TokenStore ==
    {AliceTokens[1], AliceTokens[2], BobTokens[1], BobTokens[2],
     CapabilityToken(gdrive_star, Ops,
                     << <<"department", "=", "Sales">>, <<"ownedByUser">> >>, <<>>),
     CapabilityToken(hr_bracket_star, Ops, <<>>, <<>>)}

TokenLists == UNION {[1..n -> TokenStore] : n \in 0..MaxTokens}

Departments == {StrVal(<<"Sales">>), StrVal(<<"Engineering">>)}
Owners == {StrVal(<<"alice_sales">>), StrVal(<<"bob_eng">>)}
Opt(key, values) == {<<>>} \cup {key :> x : x \in values}
ArgMaps == {d @@ o : d \in Opt("department", Departments), o \in Opt("owner", Owners)}
Contexts == Opt("user_id", {StrVal(<<"alice_sales">>)})

NoSchema == <<>>

InitKernel ==
    /\ tool \in ToolNames
    /\ call_args \in ArgMaps
    /\ tokens \in TokenLists
    /\ context \in Contexts
    /\ pc = "ready"
    /\ decision = None
    /\ first = None
    /\ suggestion = None
    /\ policy_log = <<>>
    /\ tool_schema = NoSchema
    /\ vargs = <<>>
    /\ validation = None
    /\ IdlePipeline
    /\ IdleEvaluate
    /\ IdleLearn

\* kernel.enforce(tool, call_args, tokens, context)
Enforce ==
    /\ decision' = Some(enforce(tool, call_args, tokens, context))
    /\ first' = IF first = None THEN decision' ELSE first
    /\ pc' = IF pc = "ready" THEN "done" ELSE "repeated"
    /\ UNCHANGED <<tool, call_args, tokens, context, suggestion, policy_log,
                   tool_schema, vargs, validation>>
    /\ UNCHANGED <<pipeVars, evalVars, learnVars>>

\* a kernel that stores the policies it suggests in policy_log
LearnPolicy_logged ==
    /\ pc # "ready"
    /\ suggestion' = Some(learn_policy(tool, call_args, context))
    /\ policy_log' = <<suggestion'>>
    /\ UNCHANGED <<tool, call_args, tokens, context, pc, decision, first,
                   tool_schema, vargs, validation>>
    /\ UNCHANGED <<pipeVars, evalVars, learnVars>>

\* kernel.learn_policy(tool, call_args, context)
LearnPolicy ==
    /\ pc # "ready"
    /\ suggestion' = Some(learn_policy(tool, call_args, context))
    /\ UNCHANGED <<tool, call_args, tokens, context, pc, decision, first, policy_log,
                   tool_schema, vargs, validation>>
    /\ UNCHANGED <<pipeVars, evalVars, learnVars>>

\* run_simulation's calls, with the mock LLM output: what enforce and
\* learn_policy give for each scenario
ScenarioContext(scenario) == "user_id" :> USERS[scenario.user].user_id

ScenarioDecisions ==
    [i \in 1..Len(SCENARIOS) |->
        enforce(SCENARIOS[i].expected_tool, SCENARIOS[i].expected_args,
                USERS[SCENARIOS[i].user].tokens, ScenarioContext(SCENARIOS[i]))]

ScenarioSuggestions ==
    [i \in 1..Len(SCENARIOS) |->
        learn_policy(SCENARIOS[i].expected_tool, SCENARIOS[i].expected_args,
                     ScenarioContext(SCENARIOS[i]))]

\* one turn of run_simulation's loop on the same kernel
RunScenario(i) ==
    /\ pc # "ready"
    /\ decision' = Some(ScenarioDecisions[i])
    /\ suggestion' = IF ScenarioDecisions[i].kind = "return" /\ ~ScenarioDecisions[i].allowed
                     THEN Some(ScenarioSuggestions[i])
                     ELSE suggestion
    /\ pc' = "between"
    /\ UNCHANGED <<tool, call_args, tokens, context, first, policy_log,
                   tool_schema, vargs, validation>>
    /\ UNCHANGED <<pipeVars, evalVars, learnVars>>

Next ==
    \/ Enforce
    \/ LearnPolicy
    \/ \E i \in 1..Len(SCENARIOS) : RunScenario(i)

Spec == InitKernel /\ [][Next]_vars

(***************************************************************************)
(* The calls the validator is studied on                                   *)
(***************************************************************************)
MaxArgs == 2

\* declared types: "int", "integer", "string", "String", "boolean",
\* "number", "array", "object", "list"
TypeDefs ==
    {<<"int">>, <<"int", "eger">>, <<"str", "ing">>, <<"Str", "ing">>, <<"bool", "ean">>,
     <<"number">>, <<"array">>, <<"object">>, <<"list">>}

\* validation patterns: "ab", and "[ab", which does not compile
FieldPatterns == {<<"a", "b">>, <<"[", "a", "b">>}

FieldSchemas ==
    {t @@ p : t \in Opt("type", TypeDefs), p \in Opt("pattern", FieldPatterns)}

\* parameter x takes every field schema; y, when declared, is an integer
Properties ==
    {x @@ y : x \in Opt("x", FieldSchemas), y \in Opt("y", {"type" :> <<"int">>})}

RequiredLists == {<<>>, <<"x">>, <<"y">>, <<"x", "y">>, <<"y", "x">>}

\* tool definitions; the last two lack "required" and "parameters"
Schemas ==
    {"parameters" :> (("properties" :> ps) @@ ("required" :> req)) :
        ps \in Properties, req \in RequiredLists}
    \cup {"parameters" :> ("properties" :> ("x" :> ("type" :> <<"int">>)))}
    \cup {"name" :> <<"a", ".", "b">>}

\* "ab", "abc", "ba", 123, True, 1.5, []
Values ==
    {StrVal(<<"a", "b">>), StrVal(<<"a", "b", "c">>), StrVal(<<"b", "a">>),
     [t |-> "int", v |-> <<"123">>],
     [t |-> "bool", v |-> <<"True">>], [t |-> "float", v |-> <<"1.5">>],
     [t |-> "list", v |-> <<"[]">>]}

\* x takes every value; y and the undeclared w a few
Items ==
    {[key |-> "x", value |-> v] : v \in Values}
    \cup {[key |-> "y", value |-> v] :
            v \in {[t |-> "int", v |-> <<"123">>], StrVal(<<"a", "b">>)}}
    \cup {[key |-> "w", value |-> StrVal(<<"a", "b">>)]}

\* argument maps of up to MaxArgs entries, in insertion order, keys unique
ArgLists ==
    {a \in UNION {[1..n -> Items] : n \in 0..MaxArgs} :
        \A i, j \in 1..Len(a) : a[i].key = a[j].key => i = j}

InitValidate ==
    /\ tool = <<"a", ".", "b">>
    /\ call_args = <<>>
    /\ tokens = <<>>
    /\ context = <<>>
    /\ pc = "ready"
    /\ decision = None
    /\ first = None
    /\ suggestion = None
    /\ policy_log = <<>>
    /\ tool_schema \in Schemas
    /\ vargs \in ArgLists
    /\ validation = None
    /\ IdlePipeline
    /\ IdleEvaluate
    /\ IdleLearn

\* SchemaTranslator.validate_args(tool, vargs, tool_schema)
ValidateArgs ==
    /\ pc = "ready"
    /\ validation' = Some(validate_args(tool, vargs, tool_schema))
    /\ pc' = "done"
    /\ UNCHANGED <<tool, call_args, tokens, context, decision, first, suggestion,
                   policy_log, tool_schema, vargs>>
    /\ UNCHANGED <<pipeVars, evalVars, learnVars>>

NextValidate == ValidateArgs

SpecValidate == InitValidate /\ [][NextValidate]_vars

(***************************************************************************)
(* The pipelines the guard and the analyzer are studied on                 *)
(***************************************************************************)
MaxErrors == 2

list_users == <<"l","i","s","t","_","u","s","e","r","s">>
get_users == <<"g","e","t","_","u","s","e","r","s">>
users == <<"u","s","e","r","s">>
test_tool == <<"t","e","s","t","_","t","o","o","l">>
print_ == <<"p","r","i","n","t">>
get_ == <<"g","e","t">>

\* dir(__builtins__) within the model's names: __builtins__ is the builtins
\* module in a script run as __main__ and that module's dict in an
\* imported module, where dir lists the attributes of dict
DirOfBuiltinsModule == {print_}
DirOfBuiltinsDict == {get_}

IntegerX == "parameters" :> (("properties" :> ("x" :> ("type" :> <<"int">>)))
                             @@ ("required" :> <<"x">>))
PatternX(pattern) ==
    "parameters" :> ("properties" :> ("x" :> (("type" :> <<"str", "ing">>)
                                              @@ ("pattern" :> pattern))))
Tool(name, definition) == ("name" :> name) @@ definition

\* the tool lists a pipeline is built from; the last one names list_users twice
ToolLists ==
    { <<>>,
      <<Tool(list_users, IntegerX)>>,
      <<Tool(list_users, PatternX(<<"[", "a", "b">>))>>,
      <<Tool(list_users, IntegerX), Tool(test_tool, <<>>)>>,
      <<Tool(list_users, IntegerX), Tool(list_users, PatternX(<<"a", "b">>))>> }

GuardNames == {list_users, get_users, users, test_tool}
GuardArgs_x123 == <<[key |-> "x", value |-> [t |-> "int", v |-> <<"123">>]]>>
GuardArgs ==
    { <<>>,
      GuardArgs_x123,
      <<[key |-> "x", value |-> StrVal(<<"b", "a">>)]>>,
      <<[key |-> "w", value |-> StrVal(<<"a", "b">>)]>> }

\* blocks: "x = (", "", "list_users()", "get_users()", "users()", "print()",
\* "get()", "crm.list_users()", "crm.users()", "a[0]()",
\* "get_users(users())", "get_users(); get_users()", "print(test_tool())"
Blocks ==
    { Unparsable, Parsed(<<>>),
      Parsed(<<Call("Name", list_users)>>), Parsed(<<Call("Name", get_users)>>),
      Parsed(<<Call("Name", users)>>), Parsed(<<Call("Name", print_)>>),
      Parsed(<<Call("Name", get_)>>), Parsed(<<Call("Attribute", list_users)>>),
      Parsed(<<Call("Attribute", users)>>), Parsed(<<Call("Other", <<>>)>>),
      Parsed(<<Call("Name", get_users), Call("Name", users)>>),
      Parsed(<<Call("Name", get_users), Call("Name", get_users)>>),
      Parsed(<<Call("Name", print_), Call("Name", test_tool)>>) }

\* no kernel call and no validate_args call is under study
IdleKernel ==
    /\ call_args = <<>>
    /\ tokens = <<>>
    /\ context = <<>>
    /\ pc = "ready"
    /\ decision = None
    /\ first = None
    /\ suggestion = None
    /\ policy_log = <<>>
    /\ tool_schema = NoSchema
    /\ validation = None

\* pipeline = VerificationPipeline(tools_list)
InitPipeline ==
    /\ IdleKernel
    /\ IdleEvaluate
    /\ IdleLearn
    /\ tool = <<>>
    /\ vargs = <<>>
    /\ \E tools_list \in ToolLists : tools_map = VerificationPipeline(tools_list)
    /\ builtins \in {DirOfBuiltinsModule, DirOfBuiltinsDict}
    /\ errors = <<>>
    /\ block = None
    /\ report = None
    /\ outcome = None
    /\ threads = <<>>

\* pipeline.verify_code(code)
VerifyCode ==
    \E code \in Blocks :
        /\ Len(errors) + Len(code.calls) <= MaxErrors
        /\ block' = Some(code)
        /\ errors' = analyze(errors, code, tools_map, builtins).errors
        /\ report' = Some(analyze(errors, code, tools_map, builtins).result)
        /\ UNCHANGED <<kernelVars, evalVars, learnVars, tools_map, builtins, outcome, threads>>

\* pipeline.execute_with_guard(tool_name, args)
ExecuteWithGuard ==
    \E tool_name \in GuardNames, args \in GuardArgs :
        /\ tool' = tool_name
        /\ vargs' = args
        /\ outcome' = Some(execute_with_guard(tools_map, tool_name, args))
        /\ UNCHANGED <<call_args, tokens, context, pc, decision, first, suggestion,
                       policy_log, tool_schema, validation>>
        /\ UNCHANGED <<evalVars, learnVars, tools_map, builtins, errors, block, report, threads>>

NextPipeline == VerifyCode \/ ExecuteWithGuard

SpecPipeline == InitPipeline /\ [][NextPipeline]_vars

(***************************************************************************)
(* Two threads invoke the evaluation operations on one pipeline and one    *)
(* kernel.  verify_code runs in steps: ast.parse works on the thread's own *)
(* data, each visit_Call may append to the shared StaticAnalyzer.errors    *)
(* (list.append is one atomic step of the interpreter), and the return     *)
(* hands out that list.  execute_with_guard and enforce write no attribute *)
(* of the pipeline or the kernel and are one step each.                    *)
(***************************************************************************)
Threads == {1, 2}

VerifyInvocations ==
    {[op |-> "verify_code", arg |-> code] :
        code \in {Unparsable, Parsed(<<Call("Name", list_users)>>),
                  Parsed(<<Call("Name", get_users)>>),
                  Parsed(<<Call("Name", get_users), Call("Name", users)>>),
                  Parsed(<<Call("Name", print_), Call("Name", test_tool)>>)}}
GuardInvocations ==
    {[op |-> "execute_with_guard", arg |-> [tool_name |-> n, args |-> a]] :
        n \in {list_users, get_users}, a \in {<<>>, GuardArgs_x123}}
EnforceInvocations ==
    {[op |-> "enforce",
      arg |-> [tool_name |-> gdrive_read_file, args |-> a, user_tokens |-> AliceTokens,
               user_context |-> c]] :
        a \in {<<>>, "owner" :> StrVal(<<"bob_eng">>)}, c \in Contexts}
Invocations == VerifyInvocations \cup GuardInvocations \cup EnforceInvocations

Invoke(invocation) ==
    [op |-> invocation.op, arg |-> invocation.arg, at |-> "start", i |-> 1, result |-> None]

InitConcurrent ==
    /\ IdleKernel
    /\ IdleEvaluate
    /\ IdleLearn
    /\ tool = <<>>
    /\ vargs = <<>>
    /\ \E tools_list \in ToolLists : tools_map = VerificationPipeline(tools_list)
    /\ builtins \in {DirOfBuiltinsModule, DirOfBuiltinsDict}
    /\ errors = <<>>
    /\ block = None
    /\ report = None
    /\ outcome = None
    /\ threads \in {[t \in Threads |-> Invoke(f[t])] : f \in [Threads -> Invocations]}

Shared == <<kernelVars, evalVars, learnVars, tools_map, builtins, block, report, outcome>>

\* analyze: tree = ast.parse(code)
Parse(t) ==
    /\ threads[t].op = "verify_code"
    /\ threads[t].at = "start"
    /\ threads' = [threads EXCEPT ![t] =
                      IF threads[t].arg.syntax_error
                      THEN [@ EXCEPT !.at = "done", !.result = Some(SyntaxErrorReport)]
                      ELSE [@ EXCEPT !.at = "visit"]]
    /\ UNCHANGED <<Shared, errors>>

\* analyze: self.visit(tree), one Call node
Visit(t) ==
    /\ threads[t].at = "visit"
    /\ threads[t].i <= Len(threads[t].arg.calls)
    /\ errors' = visit_Call(errors, threads[t].arg.calls[threads[t].i], tools_map, builtins)
    /\ threads' = [threads EXCEPT ![t].i = @ + 1]
    /\ UNCHANGED Shared

\* analyze: return self.errors
Return(t) ==
    /\ threads[t].at = "visit"
    /\ threads[t].i > Len(threads[t].arg.calls)
    /\ threads' = [threads EXCEPT ![t].at = "done", ![t].result = Some(errors)]
    /\ UNCHANGED <<Shared, errors>>

\* pipeline.execute_with_guard(tool_name, args)
Guard(t) ==
    /\ threads[t].op = "execute_with_guard"
    /\ threads[t].at = "start"
    /\ threads' = [threads EXCEPT
                      ![t].at = "done",
                      ![t].result = Some(execute_with_guard(tools_map, threads[t].arg.tool_name,
                                                            threads[t].arg.args))]
    /\ UNCHANGED <<Shared, errors>>

\* kernel.enforce(tool_name, args, user_tokens, user_context)
Authorize(t) ==
    /\ threads[t].op = "enforce"
    /\ threads[t].at = "start"
    /\ threads' = [threads EXCEPT
                      ![t].at = "done",
                      ![t].result = Some(enforce(threads[t].arg.tool_name, threads[t].arg.args,
                                                 threads[t].arg.user_tokens,
                                                 threads[t].arg.user_context))]
    /\ UNCHANGED <<Shared, errors>>

NextConcurrent ==
    \E t \in Threads : Parse(t) \/ Visit(t) \/ Return(t) \/ Guard(t) \/ Authorize(t)

SpecConcurrent == InitConcurrent /\ [][NextConcurrent]_vars

(***************************************************************************)
(* The constraints ConstraintEngine.evaluate is studied on                 *)
(***************************************************************************)
\* "department=Sales", " department = Sales ", "department='Sales'",
\* 'department="Sales"', the same with 'Sales' inside the double quotes,
\* "department=Sales=x", "department=", "limit=50", "exclude=Sales",
\* "ownedByUser", "ownedByUser ", "maxRecords=10", "maxRecords=abc",
\* "maxRecords", "readOnly"
Constraints ==
    { <<"department", "=", "Sales">>,
      <<" ", "department", " ", "=", " ", "Sales", " ">>,
      <<"department", "=", "'", "Sales", "'">>,
      <<"department", "=", "\"", "Sales", "\"">>,
      <<"department", "=", "\"", "'", "Sales", "'", "\"">>,
      <<"department", "=", "Sales", "=", "x">>,
      <<"department", "=">>,
      <<"limit", "=", "50">>,
      <<"exclude", "=", "Sales">>,
      <<"ownedByUser">>,
      <<"ownedByUser", " ">>,
      <<"maxRecords", "=", "10">>,
      <<"maxRecords", "=", "abc">>,
      <<"maxRecords">>,
      <<"readOnly">> }

\* limit: 5, 50, "50", "abc"
Limits ==
    {[t |-> "int", v |-> <<"5">>], [t |-> "int", v |-> <<"50">>],
     StrVal(<<"50">>), StrVal(<<"abc">>)}

EvaluateArgs ==
    {d @@ o @@ u @@ l @@ e :
        d \in Opt("department", Departments), o \in Opt("owner", Owners),
        u \in Opt("user_id", {StrVal(<<"alice_sales">>)}), l \in Opt("limit", Limits),
        e \in Opt("exclude", {StrVal(<<"Engineering">>)})}

\* the token lists of a principal who holds a token on gdrive.* with the
\* constraint: alone, after a token whose pattern does not compile, and
\* after a token with an ownership constraint
Holding(constraint) == CapabilityToken(gdrive_star, Ops, <<constraint>>, <<>>)
TokenListsHolding(constraint) ==
    { <<Holding(constraint)>>,
      <<CapabilityToken(hr_bracket_star, Ops, <<>>, <<>>), Holding(constraint)>>,
      <<AliceTokens[2], Holding(constraint)>> }

InitEvaluate ==
    /\ IdlePipeline
    /\ IdleLearn
    /\ expr \in Constraints
    /\ call_args \in EvaluateArgs
    /\ context \in Contexts
    /\ tool = gdrive_read_file
    /\ tokens \in TokenListsHolding(expr)
    /\ verdict = None
    /\ decision = None
    /\ pc = "ready"
    /\ first = None
    /\ suggestion = None
    /\ policy_log = <<>>
    /\ tool_schema = NoSchema
    /\ vargs = <<>>
    /\ validation = None

\* ConstraintEngine.evaluate(expr, call_args, context)
Evaluate ==
    /\ verdict = None
    /\ verdict' = Some(evaluate(expr, call_args, context))
    /\ UNCHANGED <<kernelVars, pipeVars, learnVars, expr>>

\* kernel.enforce(tool, call_args, tokens, context) for the principal who
\* holds the token with the constraint
EnforceHolding ==
    /\ decision = None
    /\ decision' = Some(enforce(tool, call_args, tokens, context))
    /\ UNCHANGED <<tool, call_args, tokens, context, pc, first, suggestion, policy_log,
                   tool_schema, vargs, validation>>
    /\ UNCHANGED <<pipeVars, evalVars, learnVars>>

NextEvaluate == Evaluate \/ EnforceHolding

SpecEvaluate == InitEvaluate /\ [][NextEvaluate]_vars

(***************************************************************************)
(* Properties of SecurityKernel.enforce, checked under Spec                *)
(***************************************************************************)
\* the last kernel call was enforce(tool, call_args, tokens, context)
Called == pc \in {"done", "repeated"}

IsAllowed(d) == d.kind = "return" /\ d.allowed /\ d.reason = "Allowed"
IsDenied(d, reason) == d.kind = "return" /\ ~d.allowed /\ d.reason = reason

\* the token's pattern, as enforce translates it, matches the whole name
PatternMatches(token, name) ==
    ~re_error(GlobToRegex(token.tool_pattern)) /\ TokenMatches(token, name)

\* every constraint expression of the token evaluates to true
Satisfied(token, args, ctx) ==
    \A i \in 1..Len(token.constraints) : evaluate(token.constraints[i], args, ctx) = "True"

MatchingIdx == {i \in 1..Len(tokens) : PatternMatches(tokens[i], tool)}
SomeTokenSuffices ==
    \E i \in MatchingIdx : Satisfied(tokens[i], call_args, context)

\* C1: enforce returns allowed=true with reason Allowed if and only if at
\* least one token of the list both matches the tool name and has every one
\* of its constraints evaluate to true.
C1_AllowedIffSomeTokenSuffices ==
    Called => (IsAllowed(The(decision)) <=> SomeTokenSuffices)

\* C1 on the calls enforce returns from: there the equivalence holds.
C1_WhereEnforceReturns ==
    Called /\ The(decision).kind = "return"
        => (IsAllowed(The(decision)) <=> SomeTokenSuffices)

\* C2: enforce returns allowed=false with reason NoCapabilityToken exactly
\* when no token of the list has a pattern that fully matches the tool name.
C2_NoCapabilityTokenIffNoMatch ==
    Called => (IsDenied(The(decision), "NoCapabilityToken") <=> MatchingIdx = {})

\* C2 on the calls enforce returns from.
C2_WhereEnforceReturns ==
    Called /\ The(decision).kind = "return"
        => (IsDenied(The(decision), "NoCapabilityToken") <=> MatchingIdx = {})

LastMatching == tokens[CHOOSE i \in MatchingIdx : \A j \in MatchingIdx : j <= i]
FirstFailing(token) ==
    token.constraints[CHOOSE i \in 1..Len(token.constraints) :
        /\ evaluate(token.constraints[i], call_args, context) # "True"
        /\ \A j \in 1..(i - 1) : evaluate(token.constraints[j], call_args, context) = "True"]
ViolationOfLastMatching ==
    Returned(FALSE, "ConstraintViolation",
             Some(("tool" :> Some(tool))
                  @@ ("failed_constraint" :> Some(FirstFailing(LastMatching)))))

\* C3: when some token matches the tool name but no matching token has all
\* of its constraints satisfied, enforce returns allowed=false with reason
\* ConstraintViolation, and the detail carries the tool name and the first
\* failing constraint of the last matching token.
C3_ViolationNamesFirstFailingOfLast ==
    Called /\ MatchingIdx # {} /\ ~SomeTokenSuffices
        => The(decision) = ViolationOfLastMatching

\* C3 on the calls enforce returns from.
C3_WhereEnforceReturns ==
    Called /\ The(decision).kind = "return" /\ MatchingIdx # {} /\ ~SomeTokenSuffices
        => The(decision) = ViolationOfLastMatching

InsertAt(seq, i, t) == SubSeq(seq, 1, i) \o <<t>> \o SubSeq(seq, i + 1, Len(seq))

\* C4: if enforce returns Allowed for a token list, it returns Allowed for
\* every list obtained by adding one more token at any position.
C4_AddingATokenKeepsAllowed ==
    Called /\ IsAllowed(The(decision))
        => \A t \in TokenStore : \A i \in 0..Len(tokens) :
               IsAllowed(enforce(tool, call_args, InsertAt(tokens, i, t), context))

\* C4 on the calls where enforce returns with the token added.
C4_WhereEnforceReturns ==
    Called /\ IsAllowed(The(decision))
        => \A t \in TokenStore : \A i \in 0..Len(tokens) :
               enforce(tool, call_args, InsertAt(tokens, i, t), context).kind = "return"
                   => IsAllowed(enforce(tool, call_args, InsertAt(tokens, i, t), context))

RECURSIVE GlobMatchAt(_, _, _, _)
\* the anchored glob: "*" matches any run of characters, every other
\* character of the pattern matches only itself
GlobMatchAt(pattern, i, name, j) ==
    IF i > Len(pattern) THEN j > Len(name)
    ELSE IF pattern[i] = "*"
         THEN \E k \in j..(Len(name) + 1) : GlobMatchAt(pattern, i + 1, name, k)
         ELSE /\ j <= Len(name)
              /\ pattern[i] = name[j]
              /\ GlobMatchAt(pattern, i + 1, name, j + 1)

\* C6: a token is selected for a tool name only if its pattern matches the
\* whole name as an anchored glob, where every character other than "*"
\* (the dot included) matches only itself.
C6_SelectionIsAnchoredGlob ==
    Called /\ The(decision).kind = "return"
        => (~IsDenied(The(decision), "NoCapabilityToken")
              <=> \E i \in 1..Len(tokens) : GlobMatchAt(tokens[i].tool_pattern, 1, tool, 1))

Outcome(d) ==
    IF d.kind = "return" THEN [allowed |-> d.allowed, reason |-> d.reason]
    ELSE [allowed |-> FALSE, reason |-> d.exc]
Reorderings(seq) == {[i \in 1..Len(seq) |-> seq[f[i]]] : f \in Permutations(1..Len(seq))}

\* C7: every permutation of the token list gives the same allowed flag and
\* the same reason code.
C7_OrderDoesNotMatter ==
    Called => \A r \in Reorderings(tokens) :
                  Outcome(enforce(tool, call_args, r, context)) = Outcome(The(decision))

\* C7 on the calls where enforce returns for every order of the list.
C7_WhereEnforceReturns ==
    Called /\ (\A r \in Reorderings(tokens) :
                  enforce(tool, call_args, r, context).kind = "return")
        => \A r \in Reorderings(tokens) :
               Outcome(enforce(tool, call_args, r, context)) = Outcome(The(decision))

(***************************************************************************)
(* Properties of SchemaTranslator.validate_args, checked under SpecValidate*)
(***************************************************************************)
Validated == validation # None

DeclaredRequired == Get(Get(tool_schema, "parameters", <<>>), "required", <<>>)
DeclaredProperties == Get(Get(tool_schema, "parameters", <<>>), "properties", <<>>)

SomeRequiredAbsent ==
    \E i \in 1..Len(DeclaredRequired) : DeclaredRequired[i] \notin Keys(vargs)

\* the result is a missing-required-argument error naming an absent required field
IsMissingError(r) ==
    /\ r.kind = "return"
    /\ ~r.valid
    /\ \E i \in 1..Len(DeclaredRequired) :
           /\ DeclaredRequired[i] \notin Keys(vargs)
           /\ r = MissingRequired(DeclaredRequired[i])

\* C8: validate_args fails with a missing-required-argument error if and
\* only if some name of the required list is absent from the arguments; a
\* type or pattern failure present at the same time is not the one reported.
C8_MissingIffRequiredAbsent ==
    Validated => (IsMissingError(The(validation)) <=> SomeRequiredAbsent)

\* C8's case: a required field is absent while a supplied field fails its
\* own check, and the missing field is what is reported.
C8_Witness ==
    /\ Validated
    /\ SomeRequiredAbsent
    /\ CheckFields(vargs, 1, DeclaredProperties).kind = "return"
    /\ ~CheckFields(vargs, 1, DeclaredProperties).valid
    /\ IsMissingError(The(validation))

\* the type tag a declared type stands for
TypeTag(type_def) ==
    CASE Lower(type_def) \in {<<"int">>, <<"int", "eger">>} -> "integer"
      [] Lower(type_def) = <<"str", "ing">> -> "string"
      [] Lower(type_def) = <<"bool", "ean">> -> "boolean"
      [] Lower(type_def) = <<"number">> -> "number"
      [] Lower(type_def) \in {<<"array">>, <<"list">>} -> "array"
      [] Lower(type_def) = <<"object">> -> "object"
      [] OTHER -> "unknown"

\* integer accepts whole numbers only, number any numeric, the others an
\* exact category match
Conforms(value, tag) ==
    CASE tag = "integer" -> value.t = "int"
      [] tag = "number" -> value.t \in {"int", "float"}
      [] tag = "string" -> value.t = "str"
      [] tag = "boolean" -> value.t = "bool"
      [] tag = "array" -> value.t = "list"
      [] tag = "object" -> value.t = "dict"
      [] OTHER -> TRUE

\* the first supplied argument is a declared parameter and no required one is absent
FirstIsDeclared ==
    /\ Validated
    /\ ~SomeRequiredAbsent
    /\ Len(vargs) >= 1
    /\ vargs[1].key \in DOMAIN DeclaredProperties
FirstSchema == DeclaredProperties[vargs[1].key]

\* C9: an argument whose declared type is known and whose value does not
\* match it (integer: whole numbers only, not booleans; number: any numeric;
\* string, boolean, array, object: exact category) makes validate_args fail
\* with a type mismatch naming the field, the expected and the actual type.
\* Stated for the first supplied argument, which no other failure precedes.
C9_TypeMismatchReported ==
    /\ FirstIsDeclared
    /\ "type" \in DOMAIN FirstSchema
    /\ TypeTag(FirstSchema["type"]) # "unknown"
    /\ ~Conforms(vargs[1].value, TypeTag(FirstSchema["type"]))
    => The(validation) = TypeMismatch(vargs[1].key, TypeTag(FirstSchema["type"]),
                                      vargs[1].value)

\* C10: a string argument whose declared parameter carries a validation
\* pattern makes validate_args fail with a pattern mismatch for the field
\* whenever the string does not match the pattern in full.  Stated for the
\* first supplied argument, of a parameter declared a string or untyped.
C10_PatternMustMatchInFull ==
    /\ FirstIsDeclared
    /\ "pattern" \in DOMAIN FirstSchema
    /\ ~re_error(FirstSchema["pattern"])
    /\ vargs[1].value.t = "str"
    /\ ("type" \in DOMAIN FirstSchema => TypeTag(FirstSchema["type"]) = "string")
    /\ ~re_fullmatch(FirstSchema["pattern"], vargs[1].value.v)
    => The(validation) = PatternMismatch(vargs[1].key, FirstSchema["pattern"])

\* the names a tool definition declares: its properties and its required list
DeclaredNames ==
    DOMAIN DeclaredProperties \cup {DeclaredRequired[i] : i \in 1..Len(DeclaredRequired)}

ArgKeys == {"x", "y", "w", "z"}

\* the argument map with entry i removed
Without(args, i) == SubSeq(args, 1, i - 1) \o SubSeq(args, i + 1, Len(args))

\* A with k added: a new key at any place of the insertion order, a key A
\* already holds with its value replaced
WithKey(args, k, v) ==
    IF k \in Keys(args)
    THEN {[i \in 1..Len(args) |-> IF args[i].key = k THEN [key |-> k, value |-> v]
                                                      ELSE args[i]]}
    ELSE {InsertAt(args, i, [key |-> k, value |-> v]) : i \in 0..Len(args)}

\* C11: for every key k the tool definition does not declare (it is named
\* neither in the properties nor in the required list) and every value,
\* validate_args on the arguments with k added returns the same result as
\* on the arguments themselves.
C11_UndeclaredIgnored ==
    Validated
        => \A k \in ArgKeys \ DeclaredNames : \A v \in Values :
               \A a \in WithKey(vargs, k, v) :
                   validate_args(tool, a, tool_schema) = The(validation)

\* C11's case: the call carries an undeclared argument next to a declared
\* one that fails its check, and the result is that of the call without it.
C11_Witness ==
    /\ Validated
    /\ Len(vargs) = 2
    /\ vargs[1].key \notin DeclaredNames
    /\ vargs[2].key \in DOMAIN DeclaredProperties
    /\ The(validation).kind = "return"
    /\ ~The(validation).valid
    /\ The(validation) = validate_args(tool, Without(vargs, 1), tool_schema)

(***************************************************************************)
(* Properties of the guard and the analyzer, checked under SpecPipeline    *)
(***************************************************************************)
Guarded == outcome # None

IsUnknownTool(r) ==
    /\ r.kind = "return"
    /\ Len(r.message) >= 1
    /\ r.message[1] = "Hallucination: Tool '"

\* the guard's outcome is the validator's outcome v
IsValidatorOutcome(r, v) ==
    IF v.kind = "raise" THEN r = v
    ELSE /\ r.kind = "return"
         /\ r.success = v.valid
         /\ ~v.valid => r.message = SchemaViolation(The(v.error))

\* C12: execute_with_guard fails with the unknown-tool diagnostic, whatever
\* the arguments are, whenever the tool name is not a key of the registry;
\* when it is a key, the guard reports no unknown tool and its outcome is
\* that of validate_args for the registered definition.
C12_UnknownToolElseValidator ==
    Guarded
        => IF tool \notin DOMAIN tools_map
           THEN The(outcome) = [kind |-> "return", success |-> FALSE,
                                message |-> NotFound(tool)]
           ELSE /\ ~IsUnknownTool(The(outcome))
                /\ IsValidatorOutcome(The(outcome),
                                      validate_args(tool, vargs, tools_map[tool]))

\* C12's case: the name is the tail of a registered name but no key, the
\* arguments would fail the registered tool's schema, and the guard reports
\* the unknown tool.
C12_Witness ==
    /\ Guarded
    /\ tool = users
    /\ list_users \in DOMAIN tools_map
    /\ validate_args(list_users, vargs, tools_map[list_users]).kind = "return"
    /\ ~validate_args(list_users, vargs, tools_map[list_users]).valid
    /\ IsUnknownTool(The(outcome))

Scanned == report # None

\* the callee identifiers of the scanned block
Callees ==
    {The(CalleeName(The(block).calls[i])) :
        i \in {j \in 1..Len(The(block).calls) : CalleeName(The(block).calls[j]) # None}}

\* Python's built-in identifiers among the model's names
BuiltinIdentifiers == DirOfBuiltinsModule

\* C13: after verify_code on a block that parses, every callee identifier of
\* the block that is neither a key of the registry nor a built-in identifier
\* is reported in the returned list; an identifier that is only the tail of
\* a registered name is no key and is reported.
C13_EveryUnknownCalleeReported ==
    Scanned /\ ~The(block).syntax_error
        => \A name \in Callees :
               name \notin DOMAIN tools_map /\ name \notin BuiltinIdentifiers
                   => \E i \in 1..Len(The(report)) : The(report)[i] = Hallucination(name)

\* C13 for the identifiers that are not the tail of any registered name and
\* that dir(__builtins__) does not list: all of these are reported.
C13_WhereNoTailMatches ==
    Scanned /\ ~The(block).syntax_error
        => \A name \in Callees :
               ~Matched(tools_map, name) /\ name \notin builtins
                   => \E i \in 1..Len(The(report)) : The(report)[i] = Hallucination(name)

\* a block with two unknown callees, both reported
C13_BothReported ==
    /\ Scanned
    /\ Len(The(block).calls) = 2
    /\ Cardinality(Callees) = 2
    /\ \A name \in Callees : \E i \in 1..Len(The(report)) : The(report)[i] = Hallucination(name)

\* what verify_code returns for the code on an analyzer that has scanned nothing
ViolationsOf(code) == analyze(<<>>, code, tools_map, builtins).result

\* C14: verify_code returns exactly the violations of the block it is given,
\* whatever blocks the pipeline scanned before: the same list for the same
\* block, and an empty list for a clean block after a faulty one.
C14_ReportIsOfThisBlock == Scanned => The(report) = ViolationsOf(The(block))

\* C14 for the calls that find StaticAnalyzer.errors empty.
C14_WhenErrorsWereEmpty ==
    [][errors = <<>> /\ block' # None /\ <<block', report'>> # <<block, report>>
          => The(report') = ViolationsOf(The(block'))]_vars

(***************************************************************************)
(* Properties of concurrent invocations, checked under SpecConcurrent      *)
(***************************************************************************)
\* what the invocation returns when nothing else runs on the pipeline and
\* the kernel
Alone(invocation) ==
    CASE invocation.op = "verify_code" ->
             analyze(<<>>, invocation.arg, tools_map, builtins).result
      [] invocation.op = "execute_with_guard" ->
             execute_with_guard(tools_map, invocation.arg.tool_name, invocation.arg.args)
      [] invocation.op = "enforce" ->
             enforce(invocation.arg.tool_name, invocation.arg.args,
                     invocation.arg.user_tokens, invocation.arg.user_context)

\* C15: under every interleaving of two concurrent invocations of
\* verify_code, execute_with_guard or enforce on the same objects, each
\* invocation returns exactly what it returns when run alone.
C15_EachAsIfAlone ==
    \A t \in Threads :
        threads # <<>> /\ threads[t].at = "done"
            => The(threads[t].result) = Alone(threads[t])

\* C15 for execute_with_guard and enforce, whatever the other thread runs.
C15_GuardAndEnforceAsIfAlone ==
    \A t \in Threads :
        threads # <<>> /\ threads[t].at = "done" /\ threads[t].op # "verify_code"
            => The(threads[t].result) = Alone(threads[t])

\* two scans have interleaved: both threads have appended and neither has
\* returned yet
C15_Interleaved ==
    /\ threads # <<>>
    /\ \A t \in Threads : threads[t].at = "visit" /\ threads[t].i = 2
    /\ Len(errors) = 2

(***************************************************************************)
(* Properties of ConstraintEngine.evaluate, checked under SpecEvaluate     *)
(***************************************************************************)
Evaluated == verdict # None
Enforced == decision # None

\* the constraint has the form k=v
IsKeyValue(c) == Contains(c, "=")
\* k: the text before the first "=", without surrounding whitespace
KeyOf(c) == Strip(SubSeq(c, 1, IndexOf(c, "=") - 1), Whitespace)
\* v: the text after the first "=", without surrounding whitespace and
\* without surrounding single or double quotes
ValueOf(c) ==
    Strip(Strip(Strip(SubSeq(c, IndexOf(c, "=") + 1, Len(c)), Whitespace), {"'"}), {"\""})

Bool(b) == IF b THEN "True" ELSE "False"

\* C16: for a constraint of the form k=v and arguments that lack key k,
\* evaluate returns true, whatever v, the other arguments and the context
\* are.
C16_AbsentKeyIsSatisfied ==
    Evaluated /\ IsKeyValue(expr) /\ ~HasKey(call_args, KeyOf(expr))
        => The(verdict) = "True"

\* C16's case: department=Sales on arguments that carry an owner and a
\* limit but no department, with a context that has no user_id.
C16_Witness ==
    /\ Evaluated
    /\ expr = <<"department", "=", "Sales">>
    /\ DOMAIN call_args = {"owner", "limit"}
    /\ context = <<>>
    /\ The(verdict) = "True"

\* C17: for a constraint k=v and arguments that contain key k, evaluate
\* returns true if and only if the stringified argument value equals v.
C17_PresentKeyMustEqual ==
    Evaluated /\ IsKeyValue(expr) /\ HasKey(call_args, KeyOf(expr))
        => The(verdict) = Bool(str(Lookup(call_args, KeyOf(expr))) = ValueOf(expr))

\* C17 for the constraints that do not start with "exclude".
C17_UnlessExclude ==
    Evaluated /\ IsKeyValue(expr) /\ HasKey(call_args, KeyOf(expr))
              /\ ~StartsWithAtom(expr, "exclude")
        => The(verdict) = Bool(str(Lookup(call_args, KeyOf(expr))) = ValueOf(expr))

\* a quoted value and a stringified integer are compared and found equal
C17_QuotedAndStringified ==
    /\ Evaluated
    /\ The(verdict) = "True"
    /\ \/ expr = <<"department", "=", "\"", "Sales", "\"">> /\ "department" \in DOMAIN call_args
       \/ expr = <<"limit", "=", "50">> /\ "limit" \in DOMAIN call_args
                                       /\ call_args["limit"].t = "int"

\* args.owner, else args.user_id, equals context.user_id; true when the
\* arguments have neither
Owns ==
    IF "owner" \in DOMAIN call_args
    THEN "user_id" \in DOMAIN context /\ PyEq(call_args["owner"], context["user_id"])
    ELSE IF "user_id" \in DOMAIN call_args
    THEN "user_id" \in DOMAIN context /\ PyEq(call_args["user_id"], context["user_id"])
    ELSE TRUE

\* C18: for ownedByUser, evaluate returns true iff args.owner equals
\* context.user_id when the arguments contain owner (args.user_id is then
\* not consulted), else iff args.user_id equals context.user_id when they
\* contain user_id, else true.
C18_OwnedByUser ==
    Evaluated /\ expr = <<"ownedByUser">> => The(verdict) = Bool(Owns)

\* C18 for the contexts that have a user_id.
C18_WhereContextHasUserId ==
    Evaluated /\ expr = <<"ownedByUser">> /\ "user_id" \in DOMAIN context
        => The(verdict) = Bool(Owns)

\* the constraint is maxRecords=N for an integer N, and args.limit is
\* present and parses as an integer greater than N
IsMaxRecords(c) ==
    /\ Len(c) >= 2 /\ c[1] = "maxRecords" /\ c[2] = "="
    /\ IntOf(SubSeq(c, 3, Len(c))) # None
ExceedsCeiling ==
    /\ "limit" \in DOMAIN call_args
    /\ IntOf(str(call_args["limit"])) # None
    /\ The(IntOf(str(call_args["limit"]))) > The(IntOf(SubSeq(expr, 3, Len(expr))))

\* C19: for maxRecords=N, evaluate returns false when args.limit is present
\* and parses as an integer greater than N, and true otherwise; enforce
\* denies the call whose only matching token carries the constraint when
\* the limit exceeds N.
C19_CeilingOnLimit ==
    IsMaxRecords(expr)
        => /\ Evaluated => The(verdict) = Bool(~ExceedsCeiling)
           /\ Enforced /\ tokens = <<Holding(expr)>> /\ ExceedsCeiling
                  => IsDenied(The(decision), "ConstraintViolation")

\* C19 for the calls whose limit is absent, not numeric or at most N.
C19_WhereLimitIsWithin ==
    IsMaxRecords(expr) /\ Evaluated /\ ~ExceedsCeiling => The(verdict) = "True"

\* the constraint belongs to none of the three families
Unrecognized(c) == ~IsKeyValue(c) /\ c # <<"ownedByUser">>

\* C20: a constraint of none of the three families evaluates to true, and
\* the principal who holds a matching token with only such a constraint is
\* allowed every call to the tool.
C20_UnrecognizedFailsOpen ==
    Unrecognized(expr)
        => /\ Evaluated => The(verdict) = "True"
           /\ Enforced => IsAllowed(The(decision))

\* C20 for evaluate itself, and for the calls enforce returns from.
C20_WhereEnforceReturns ==
    Unrecognized(expr)
        => /\ Evaluated => The(verdict) = "True"
           /\ Enforced /\ The(decision).kind = "return" => IsAllowed(The(decision))

\* C21: evaluate never throws: for every constraint, argument map and
\* context (a context with no user_id and numeric literals that do not
\* parse included) it returns a boolean, malformed numeric literals giving
\* "satisfied".
C21_EvaluateReturnsABoolean ==
    Evaluated
        => /\ The(verdict) \in {"True", "False"}
           /\ expr = <<"maxRecords", "=", "abc">> => The(verdict) = "True"

\* C21 for the contexts that have a user_id, and for the malformed literal
\* whatever the context.
C21_WhereContextHasUserId ==
    Evaluated
        => /\ "user_id" \in DOMAIN context => The(verdict) \in {"True", "False"}
           /\ expr = <<"maxRecords", "=", "abc">> => The(verdict) = "True"

\* evaluate leaves the argument map, the context and every other variable
\* as they were
C21_EvaluateWritesNothing ==
    [][verdict' # verdict => UNCHANGED <<kernelVars, pipeVars, learnVars, expr>>]_vars

(***************************************************************************)
(* Totality of SecurityKernel.enforce, checked under Spec                  *)
(***************************************************************************)
Reasons == {"Allowed", "NoCapabilityToken", "ConstraintViolation"}

\* every pattern of the token list compiles as a regular expression
PatternsCompile == \A i \in 1..Len(tokens) : ~re_error(GlobToRegex(tokens[i].tool_pattern))

\* C22: enforce is total: for every tool name, argument map, context and
\* token list it returns a decision whose reason is Allowed,
\* NoCapabilityToken or ConstraintViolation, and never raises.
C22_EnforceIsTotal ==
    Called => The(decision).kind = "return" /\ The(decision).reason \in Reasons

\* C22 for the token lists whose patterns compile, called with a context
\* that has a user_id.
C22_WherePatternsCompile ==
    Called /\ PatternsCompile /\ "user_id" \in DOMAIN context
        => The(decision).kind = "return" /\ The(decision).reason \in Reasons

(***************************************************************************)
(* The Policy Learner: a suggestion is derived from an observed request    *)
(* and then tried, alone, on a call                                        *)
(***************************************************************************)
gdrive_read_file_x == gdrive_read_file \o <<".", "x">>

\* the tools of the requests a suggestion is derived from
LearnToolNames == {gdrive_read_file, salesforce_update_lead, hr_get_salary}

\* the tools of the calls the suggestion is tried on
ReplayNames == LearnToolNames \cup {gdrive_underscore_read_file, gdrive_read_file_x}

\* department: "Sales", " Sales", "'Sales'"
LearnDepartments ==
    {StrVal(<<"Sales">>), StrVal(<<" ", "Sales">>), StrVal(<<"'", "Sales", "'">>)}

LearnArgs ==
    {d @@ o @@ f : d \in Opt("department", LearnDepartments), o \in Opt("owner", Owners),
                   f \in Opt("file_id", {StrVal(<<"f1">>)})}

\* no user_id, user_id 'alice_sales', user_id None
LearnContexts == Opt("user_id", {StrVal(<<"alice_sales">>), PyNone})

InitLearn ==
    /\ IdlePipeline
    /\ IdleEvaluate
    /\ tool \in LearnToolNames
    /\ call_args \in LearnArgs
    /\ context \in LearnContexts
    /\ tokens = <<>>
    /\ pc = "ready"
    /\ decision = None
    /\ first = None
    /\ suggestion = None
    /\ policy_log = <<>>
    /\ tool_schema = NoSchema
    /\ vargs = <<>>
    /\ validation = None
    /\ replayed = None

\* suggestion = kernel.learn_policy(tool, call_args, context)
Suggest ==
    /\ pc = "ready"
    /\ suggestion' = Some(learn_policy(tool, call_args, context))
    /\ pc' = "suggested"
    /\ UNCHANGED <<tool, call_args, tokens, context, decision, first, policy_log,
                   tool_schema, vargs, validation>>
    /\ UNCHANGED <<pipeVars, evalVars, learnVars>>

\* kernel.enforce(tool_name, args, [suggestion], context)
Replay(tool_name, args) ==
    /\ pc = "suggested"
    /\ The(suggestion).kind = "return"
    /\ replayed' = Some([tool_name |-> tool_name, args |-> args])
    /\ decision' = Some(enforce(tool_name, args, <<The(suggestion).token>>, context))
    /\ pc' = "replayed"
    /\ UNCHANGED <<tool, call_args, tokens, context, first, suggestion, policy_log,
                   tool_schema, vargs, validation>>
    /\ UNCHANGED <<pipeVars, evalVars>>

NextLearn ==
    \/ Suggest
    \/ \E tool_name \in ReplayNames, args \in LearnArgs : Replay(tool_name, args)

SpecLearn == InitLearn /\ [][NextLearn]_vars

(***************************************************************************)
(* Properties of SecurityKernel.learn_policy, checked under SpecLearn      *)
(***************************************************************************)
Suggested == suggestion # None
Replayed == replayed # None
Token == The(suggestion).token

\* the constraints the observed request calls for: department=<its
\* department> if it has one, then ownedByUser if its owner is the caller
DepartmentOfRequest ==
    IF "department" \in DOMAIN call_args
    THEN << <<"department", "=">> \o str(call_args["department"]) >>
    ELSE <<>>
OwnedByCaller ==
    /\ "owner" \in DOMAIN call_args
    /\ "user_id" \in DOMAIN context
    /\ call_args["owner"] = context["user_id"]
MinimalConstraints ==
    DepartmentOfRequest \o (IF OwnedByCaller THEN << <<"ownedByUser">> >> ELSE <<>>)

\* C23: learn_policy returns a token whose pattern is exactly tool_name and
\* whose constraints are department=<args.department> iff args has a
\* department, ownedByUser iff args.owner equals context.user_id, and
\* nothing else.
C23_SuggestionIsMinimal ==
    Suggested
        => /\ The(suggestion).kind = "return"
           /\ Token.tool_pattern = tool
           /\ Token.constraints = MinimalConstraints

\* C23 for the contexts whose user_id is a string.
C23_WhereUserIdIsAString ==
    Suggested /\ "user_id" \in DOMAIN context /\ context["user_id"] # PyNone
        => /\ The(suggestion).kind = "return"
           /\ Token.tool_pattern = tool
           /\ Token.constraints = MinimalConstraints

\* the spec's example, with alice_sales for alice: owner and file_id give
\* exactly ownedByUser
C23_Example ==
    /\ Suggested
    /\ tool = gdrive_read_file
    /\ DOMAIN call_args = {"owner", "file_id"}
    /\ OwnedByCaller
    /\ The(suggestion).kind = "return"
    /\ Token.constraints = << <<"ownedByUser">> >>


\* the suggestion was tried on the request it was derived from
ReplayedItsCall == Replayed /\ The(replayed) = [tool_name |-> tool, args |-> call_args]

\* the text is unchanged by stripping whitespace, then single quotes, then
\* double quotes
Bare(text) == Strip(Strip(Strip(text, Whitespace), {"'"}), {"\""}) = text

\* C24: the suggested token would have allowed the call it was derived
\* from: for every tool name, argument map and context,
\* enforce(tool_name, args, [learn_policy(tool_name, args, context)], context)
\* returns Allowed.
C24_SuggestionAllowsItsCall ==
    /\ Suggested => The(suggestion).kind = "return"
    /\ ReplayedItsCall => IsAllowed(The(decision))

\* C24 for the requests whose context has a user_id and whose department,
\* if they have one, has no surrounding whitespace or quotes.
C24_WhereDepartmentIsBare ==
    /\ "user_id" \in DOMAIN context
    /\ "department" \in DOMAIN call_args => Bare(str(call_args["department"]))
    => /\ Suggested => The(suggestion).kind = "return"
       /\ ReplayedItsCall => IsAllowed(The(decision))

\* a suggestion that denies the request it was derived from
C24_DeniesItsCall ==
    /\ ReplayedItsCall
    /\ IsDenied(The(decision), "ConstraintViolation")

\* a suggestion with both constraints that allows the request it was
\* derived from
C24_AllowsItsCall ==
    /\ ReplayedItsCall
    /\ Len(Token.constraints) = 2
    /\ IsAllowed(The(decision))


\* C25: the token learn_policy returns for tool_name is never a wildcard:
\* passed to enforce, it matches a call only if the call's tool name is
\* identical to tool_name, and a call to any other tool name gets
\* NoCapabilityToken from it.
C25_SuggestionIsNoWildcard ==
    Replayed /\ The(replayed).tool_name # tool
        => IsDenied(The(decision), "NoCapabilityToken")

\* the names differ in length, or at a position where the first has a
\* character other than "."
DiffersBeyondDots(name, other) ==
    \/ Len(other) # Len(name)
    \/ \E i \in 1..Len(name) : name[i] # "." /\ other[i] # name[i]

\* C25 for the other tool names that differ from tool_name in length or
\* somewhere else than at a "." of tool_name.
C25_WhereNoDotStandsForAnother ==
    Replayed /\ DiffersBeyondDots(tool, The(replayed).tool_name)
        => IsDenied(The(decision), "NoCapabilityToken")

\* the suggestion for gdrive.read_file is tried on gdrive.read_file.x
C25_LongerNameIsRefused ==
    /\ Replayed
    /\ tool = gdrive_read_file
    /\ The(replayed).tool_name = gdrive_read_file_x
    /\ IsDenied(The(decision), "NoCapabilityToken")

(***************************************************************************)
(* Operations and description of a token, checked under Spec               *)
(***************************************************************************)
\* the token with other operations, or with another description
Relabelled(token) ==
    { CapabilityToken(token.tool_pattern, <<"execute">>, token.constraints,
                      token.description),
      CapabilityToken(token.tool_pattern, token.operations, token.constraints,
                      <<"relabelled">>) }

\* the token lists that differ from the list only in operations or
\* descriptions
RECURSIVE RelabelledLists(_)
RelabelledLists(seq) ==
    IF seq = <<>> THEN {<<>>}
    ELSE {<<t>> \o rest : t \in Relabelled(Head(seq)), rest \in RelabelledLists(Tail(seq))}

\* C26: operations and description are advisory: for every call and
\* context, two token lists that differ only in the operations or
\* description fields of their tokens produce identical enforce decisions
\* (the decision of the call, once enforce has made it, is the one every
\* relabelled list gives).
C26_OperationsAreAdvisory ==
    pc = "done" => \A list \in RelabelledLists(tokens) :
                  enforce(tool, call_args, list, context) = The(decision)

\* C26's case: the call is allowed on a read-only token and a read/write
\* token, and would be decided on tokens relabelled "execute"
C26_Witness ==
    /\ pc = "done"
    /\ Len(tokens) = 2
    /\ tokens[1].operations = <<"read">>
    /\ tokens[2].operations = Ops
    /\ TokenMatches(tokens[1], tool)
    /\ IsAllowed(The(decision))

(***************************************************************************)
(* The valid requests of the stress test: generate_users grants a token    *)
(* on a tool, generate_traffic asks for the tool with the user's own       *)
(* department and identity, run_quantitative_study calls enforce           *)
(***************************************************************************)
\* tool['full_name'].split('.')[0]
FirstSegment(full_name) ==
    IF Contains(full_name, ".") THEN SubSeq(full_name, 1, IndexOf(full_name, ".") - 1)
    ELSE full_name

\* the tokens generate_users may grant on the tool to a user of the
\* department: exact name or first segment with ".*", with or without the
\* department constraint
Grants(full_name, dept) ==
    {CapabilityToken(pattern, <<"read", "write">>, constraints, <<>>) :
        pattern \in {full_name, FirstSegment(full_name) \o <<".", "*">>},
        constraints \in {<<>>, << <<"department", "=">> \o dept >>}}

\* f"user_{i}_{dept}"
UserOf(dept) == StrVal(<<"user_", "0", "_">> \o dept)

TrafficTools == {salesforce_update_lead, gdrive_read_file, hr_get_salary}

\* the token lists of a user who holds the grant alone, or with one other
\* token before or after it
TrafficTokenLists(grant) ==
    {<<grant>>} \cup {<<grant, other>> : other \in TokenStore}
                \cup {<<other, grant>> : other \in TokenStore}

InitTraffic ==
    /\ IdlePipeline
    /\ IdleEvaluate
    /\ IdleLearn
    /\ tool \in TrafficTools
    /\ \E dept \in Departments :
           /\ call_args = [department |-> dept, owner |-> UserOf(str(dept))]
           /\ context = ("user_id" :> UserOf(str(dept)))
           /\ \E grant \in Grants(tool, str(dept)) : tokens \in TrafficTokenLists(grant)
    /\ pc = "ready"
    /\ decision = None
    /\ first = None
    /\ suggestion = None
    /\ policy_log = <<>>
    /\ tool_schema = NoSchema
    /\ vargs = <<>>
    /\ validation = None

\* kernel.enforce(tool['full_name'], args, user['tokens'], {"user_id": user['id']})
EnforceTraffic ==
    /\ pc = "ready"
    /\ decision' = Some(enforce(tool, call_args, tokens, context))
    /\ pc' = "done"
    /\ UNCHANGED <<tool, call_args, tokens, context, first, suggestion, policy_log,
                   tool_schema, vargs, validation>>
    /\ UNCHANGED <<pipeVars, evalVars, learnVars>>

NextTraffic == EnforceTraffic

SpecTraffic == InitTraffic /\ [][NextTraffic]_vars

\* the request is a valid one: the arguments carry a department and an
\* owner, the context's user_id is the owner, and the principal holds a
\* grant on the tool for the department
ValidTraffic ==
    /\ DOMAIN call_args = {"department", "owner"}
    /\ context = ("user_id" :> call_args["owner"])
    /\ \E i \in 1..Len(tokens) :
           tokens[i] \in Grants(tool, str(call_args["department"]))

\* C27: valid traffic is never blocked: a principal of department D with
\* identity U who holds, for tool t, a token on t's full name or on its
\* first segment with ".*", with no constraint or with department=D, is
\* allowed enforce(t, {department: D, owner: U}, tokens, {user_id: U}),
\* whatever other tokens the principal holds.
C27_ValidTrafficIsAllowed ==
    Called /\ ValidTraffic => IsAllowed(The(decision))

\* C27 for the principals whose tokens all have patterns that compile.
C27_WherePatternsCompile ==
    Called /\ ValidTraffic /\ PatternsCompile => IsAllowed(The(decision))

\* a valid request is allowed although another token, held in front of the
\* grant, matches the tool and is violated
C27_AllowedPastAViolatedToken ==
    /\ Called
    /\ ValidTraffic
    /\ Len(tokens) = 2
    /\ TokenMatches(tokens[1], tool)
    /\ FirstUnmet(tokens[1].constraints, call_args, context).status = "violated"
    /\ IsAllowed(The(decision))

(***************************************************************************)
(* The valid test cases of the verification benchmark: generate_test_cases *)
(* fills the required parameters of a tool, run_benchmark passes the call  *)
(* to execute_with_guard                                                   *)
(***************************************************************************)
dummy_tool == <<"d","u","m","m","y","_","t","o","o","l">>
test_value == <<"t","e","s","t","_","v","a","l","u","e">>

\* the declared types of the validator's study, and "Integer"
BenchmarkTypeDefs == TypeDefs \cup {<<"Int", "eger">>}

BenchmarkFieldSchemas ==
    {t @@ p : t \in Opt("type", BenchmarkTypeDefs), p \in Opt("pattern", FieldPatterns)}

\* tool definitions: parameter x takes every field schema; y, when
\* declared, is an integer
BenchmarkTools ==
    {Tool(dummy_tool, "parameters" :> (("properties" :> (x @@ y)) @@ ("required" :> req))) :
        x \in Opt("x", BenchmarkFieldSchemas), y \in Opt("y", {"type" :> <<"int">>}),
        req \in RequiredLists}

\* "Fill valid args first": 123 for a declared type that contains "int",
\* "test_value" otherwise
FillValid(tool_def) ==
    LET params == Get(tool_def, "parameters", <<>>)
        props == Get(params, "properties", <<>>)
        required == Get(params, "required", <<>>)
        f_type(field) == Get(Get(props, field, <<>>), "type", <<"str", "ing">>)
    IN  [i \in 1..Len(required) |->
            [key |-> required[i],
             value |-> IF Contains(f_type(required[i]), "int")
                       THEN [t |-> "int", v |-> <<"123">>]
                       ELSE StrVal(test_value)]]

\* pipeline = VerificationPipeline(tools), for one tool
InitBenchmark ==
    /\ IdleKernel
    /\ IdleEvaluate
    /\ IdleLearn
    /\ tool = dummy_tool
    /\ vargs = <<>>
    /\ \E tool_def \in BenchmarkTools : tools_map = VerificationPipeline(<<tool_def>>)
    /\ builtins = {}
    /\ errors = <<>>
    /\ block = None
    /\ report = None
    /\ outcome = None
    /\ threads = <<>>

\* generate_test_cases, error_type "Valid"
GenerateValid ==
    /\ pc = "ready"
    /\ vargs' = FillValid(tools_map[tool])
    /\ pc' = "generated"
    /\ UNCHANGED <<tool, call_args, tokens, context, decision, first, suggestion,
                   policy_log, tool_schema, validation>>
    /\ UNCHANGED <<pipeVars, evalVars, learnVars>>

\* a call an agent proposes for the tool
Propose ==
    /\ pc = "ready"
    /\ vargs' \in ArgLists
    /\ pc' = "proposed"
    /\ UNCHANGED <<tool, call_args, tokens, context, decision, first, suggestion,
                   policy_log, tool_schema, validation>>
    /\ UNCHANGED <<pipeVars, evalVars, learnVars>>

\* res = pipeline.execute_with_guard(test['call_name'], test['call_args'])
RunTest ==
    /\ pc # "ready"
    /\ outcome = None
    /\ outcome' = Some(execute_with_guard(tools_map, tool, vargs))
    /\ UNCHANGED <<kernelVars, evalVars, learnVars, tools_map, builtins, errors, block,
                   report, threads>>

NextBenchmark == GenerateValid \/ Propose \/ RunTest

SpecBenchmark == InitBenchmark /\ [][NextBenchmark]_vars

(***************************************************************************)
(* Properties of the guard on well-formed calls, checked under             *)
(* SpecBenchmark                                                           *)
(***************************************************************************)
Tested == outcome # None
NotCaught == The(outcome).kind = "return" /\ The(outcome).success

RegisteredProperties == Get(Get(tools_map[tool], "parameters", <<>>), "properties", <<>>)
RegisteredRequired == Get(Get(tools_map[tool], "parameters", <<>>), "required", <<>>)

\* the value is of the parameter's declared type and, if it is a string,
\* matches the parameter's pattern in full
ValueConforms(value, field_schema) ==
    /\ "type" \in DOMAIN field_schema => Conforms(value, TypeTag(field_schema["type"]))
    /\ "pattern" \in DOMAIN field_schema /\ value.t = "str"
           => /\ ~re_error(field_schema["pattern"])
              /\ re_fullmatch(field_schema["pattern"], value.v)

\* the call supplies every required parameter and each declared argument
\* conforms
WellFormed ==
    /\ \A i \in 1..Len(RegisteredRequired) : RegisteredRequired[i] \in Keys(vargs)
    /\ \A i \in 1..Len(vargs) :
           vargs[i].key \in DOMAIN RegisteredProperties
               => ValueConforms(vargs[i].value, RegisteredProperties[vargs[i].key])

\* C28: the guard never blocks a well-formed call: a call to a registered
\* tool that supplies every required parameter, each declared argument
\* holding a value of its declared type and matching its pattern, makes
\* execute_with_guard return success; and the call that fills every
\* required parameter with 123 when its declared type contains "int" and
\* with "test_value" otherwise is not caught.
C28_NoFalsePositives ==
    Tested => /\ WellFormed => NotCaught
              /\ pc = "generated" => NotCaught

\* C28 for the well-formed calls, the generated ones among them.
C28_WellFormedIsNotCaught ==
    Tested /\ WellFormed => NotCaught

\* a generated call that is well-formed and not caught
C28_GeneratedAndWellFormed ==
    /\ Tested
    /\ pc = "generated"
    /\ Len(vargs) = 2
    /\ WellFormed
    /\ NotCaught

\* a generated call that is caught
C28_GeneratedAndCaught ==
    /\ Tested
    /\ pc = "generated"
    /\ The(outcome).kind = "return"
    /\ ~The(outcome).success

(***************************************************************************)
(* A session: one pipeline and one kernel, called in any order             *)
(***************************************************************************)
\* the kernel is given a scenario's call with its user's tokens; the
\* pipeline is built from a registry of two tools
InitSession ==
    /\ IdleEvaluate
    /\ IdleLearn
    /\ \E i \in 1..Len(SCENARIOS) :
           /\ tool = SCENARIOS[i].expected_tool
           /\ call_args = SCENARIOS[i].expected_args
           /\ tokens = USERS[SCENARIOS[i].user].tokens
           /\ context = ScenarioContext(SCENARIOS[i])
    /\ pc = "ready"
    /\ decision = None
    /\ first = None
    /\ suggestion = None
    /\ policy_log = <<>>
    /\ tool_schema = NoSchema
    /\ vargs = <<>>
    /\ validation = None
    /\ tools_map = VerificationPipeline(<<Tool(list_users, IntegerX), Tool(test_tool, <<>>)>>)
    /\ builtins \in {DirOfBuiltinsModule, DirOfBuiltinsDict}
    /\ errors = <<>>
    /\ block = None
    /\ report = None
    /\ outcome = None
    /\ threads = <<>>

\* pipeline.verify_code(code), for "get_users()" and "list_users()"
SessionVerify ==
    \E code \in {Parsed(<<Call("Name", get_users)>>), Parsed(<<Call("Name", list_users)>>)} :
        /\ Len(errors) + Len(code.calls) <= MaxErrors
        /\ block' = Some(code)
        /\ errors' = analyze(errors, code, tools_map, builtins).errors
        /\ report' = Some(analyze(errors, code, tools_map, builtins).result)
        /\ UNCHANGED <<kernelVars, evalVars, learnVars, tools_map, builtins, outcome, threads>>

\* pipeline.execute_with_guard(tool_name, args), for list_users and
\* get_users with {"x": 123} and {}
SessionGuard ==
    \E tool_name \in {list_users, get_users}, args \in {GuardArgs_x123, <<>>} :
        /\ vargs' = args
        /\ outcome' = Some(execute_with_guard(tools_map, tool_name, args))
        /\ UNCHANGED <<tool, call_args, tokens, context, pc, decision, first, suggestion,
                       policy_log, tool_schema, validation>>
        /\ UNCHANGED <<evalVars, learnVars, tools_map, builtins, errors, block, report, threads>>

NextSession == Enforce \/ LearnPolicy \/ SessionVerify \/ SessionGuard

SpecSession == InitSession /\ [][NextSession]_vars

\* C29: evaluation has no side effects on shared data: through any
\* sequence of execute_with_guard, verify_code, enforce and learn_policy
\* calls the pipeline's tool registry, the caller's token list, the
\* argument map, the context map and the kernel's policy_log keep the
\* values they had before.
C29_SharedDataIsUnchanged ==
    [][UNCHANGED <<tools_map, tokens, call_args, context, policy_log>>]_vars

\* C29's case: each of the four operations has been called, verify_code
\* with a report of a hallucinated call, and the registry, the tokens and
\* the policy log are as they were built
C29_Witness ==
    /\ decision # None
    /\ suggestion # None
    /\ report # None /\ The(report) # <<>>
    /\ outcome # None
    /\ tools_map = VerificationPipeline(<<Tool(list_users, IntegerX), Tool(test_tool, <<>>)>>)
    /\ tokens = AliceTokens
    /\ policy_log = <<>>

(***************************************************************************)
(* The shape of the decisions of SecurityKernel.enforce, checked under     *)
(* Spec                                                                    *)
(***************************************************************************)
\* the constraint belongs to one of the supplied tokens that match the tool
HeldByAMatchingToken(c) ==
    \E i \in MatchingIdx : \E j \in 1..Len(tokens[i].constraints) :
        tokens[i].constraints[j] = c

WellFormedDecision(d) ==
    /\ d.kind = "return"
    /\ d.reason \in Reasons
    /\ d.allowed <=> d.reason = "Allowed"
    /\ d.reason = "Allowed" => d.details = None
    /\ d.reason = "NoCapabilityToken"
           => d.details = Some("tool" :> Some(tool))
    /\ d.reason = "ConstraintViolation"
           => /\ d.details # None
              /\ DOMAIN The(d.details) = {"tool", "failed_constraint"}
              /\ The(d.details)["tool"] = Some(tool)
              /\ The(d.details)["failed_constraint"] # None
              /\ HeldByAMatchingToken(The(The(d.details)["failed_constraint"]))

\* C30: every decision enforce returns is well-formed: the reason is one of
\* Allowed, NoCapabilityToken, ConstraintViolation; allowed is true iff the
\* reason is Allowed; an Allowed decision carries no violation detail; a
\* NoCapabilityToken decision carries the tool name and no
\* failed_constraint; a ConstraintViolation decision carries the tool name
\* and a failed_constraint that is a constraint of one of the supplied
\* tokens that match the tool name.
C30_DecisionsAreWellFormed ==
    Called /\ The(decision).kind = "return" => WellFormedDecision(The(decision))

\* C30's case: a denial that names the violated constraint of a matching
\* token
C30_Witness ==
    /\ Called
    /\ IsDenied(The(decision), "ConstraintViolation")
    /\ WellFormedDecision(The(decision))
    /\ The(The(The(decision).details)["failed_constraint"]) = <<"ownedByUser">>

=============================================================================
